---- MODULE Spec2Model ----
(***************************************************************************)
(* A model of CntxtJS.py (class JSCodeKnowledgeGraph): the import path     *)
(* resolver, the per-file extraction pipeline and the assembly of the      *)
(* knowledge graph.                                                        *)
(*                                                                         *)
(* Text is modelled at two levels.  Paths and import specifiers are real   *)
(* strings, handled character by character (startswith, replace, split,    *)
(* normpath, relpath).  File contents are sequences of lines and a line is *)
(* a sequence of tokens: the pieces of the line between its blanks, its    *)
(* text being the tokens joined by single blanks.  The punctuation that    *)
(* the patterns name between optional white space, ( ) : { } = => and ;,   *)
(* stands alone as a token; the text a group captures is free.  The        *)
(* regular expressions of the extractor are matchers over tokens, and the  *)
(* parameter parser works on the characters of the captured text.  A class *)
(* body and a method signature lie on one line, and the value of a JSX     *)
(* attribute holds no > character.                                         *)
(*                                                                         *)
(* Spec is the walk of analyze_codebase over a small source tree;          *)
(* SpecSyntax is the same walk over more declaration and import forms;     *)
(* SpecFaults adds the exceptions the try blocks catch; SpecResolve and    *)
(* SpecParams drive _resolve_import_path and _parse_parameters alone.      *)
(***************************************************************************)
EXTENDS Integers, Sequences, FiniteSets, TLC

VARIABLES
    fs,        \* the regular files on disk, as absolute paths
    content,   \* content[p]: the lines of the source file p
    self,      \* the JSCodeKnowledgeGraph object: its fields
    pc,        \* "idle", or the extraction step _process_file runs next
    cur,       \* the path _process_file is working on
    calls,     \* the number of _process_file calls made so far
    rq,        \* the resolver driven on its own: the last request and its result
    pq,        \* the parameter parser driven on its own: the string and its descriptors
    raised     \* the exception caught last: the file, the step and the except clause

vars == <<fs, content, self, pc, cur, calls, rq, pq, raised>>

-----------------------------------------------------------------------------
(* Strings (Python str), character by character.                           *)

None == "<None>"

Range(s) == {s[i] : i \in 1..Len(s)}

StartsWith(s, p) == Len(s) >= Len(p) /\ SubSeq(s, 1, Len(p)) = p

EndsWith(s, p) == Len(s) >= Len(p) /\ SubSeq(s, Len(s) - Len(p) + 1, Len(s)) = p

\* p in s, for a non-empty p
Contains(s, p) == \E i \in 1..Len(s) : i + Len(p) - 1 <= Len(s) /\ SubSeq(s, i, i + Len(p) - 1) = p

\* s.replace(a, b): every occurrence, left to right, not overlapping
RECURSIVE Replace(_, _, _)
Replace(s, a, b) ==
    IF Len(s) = 0 THEN ""
    ELSE IF StartsWith(s, a) THEN b \o Replace(SubSeq(s, Len(a) + 1, Len(s)), a, b)
    ELSE SubSeq(s, 1, 1) \o Replace(SubSeq(s, 2, Len(s)), a, b)

\* s.split("/"): the pieces between the separators, empty pieces included
RECURSIVE SplitAcc(_, _, _)
SplitAcc(s, piece, acc) ==
    IF Len(s) = 0 THEN Append(acc, piece)
    ELSE IF SubSeq(s, 1, 1) = "/" THEN SplitAcc(SubSeq(s, 2, Len(s)), "", Append(acc, piece))
    ELSE SplitAcc(SubSeq(s, 2, Len(s)), piece \o SubSeq(s, 1, 1), acc)

Split(s) == SplitAcc(s, "", <<>>)

\* "/".join(parts)
RECURSIVE Join(_)
Join(parts) ==
    IF Len(parts) = 0 THEN ""
    ELSE IF Len(parts) = 1 THEN parts[1]
    ELSE parts[1] \o "/" \o Join(Tail(parts))

-----------------------------------------------------------------------------
(* os.path on a POSIX system.                                              *)

\* os.path.join(a, b)
PathJoin(a, b) ==
    IF StartsWith(b, "/") THEN b
    ELSE IF a = "" \/ EndsWith(a, "/") THEN a \o b
    ELSE a \o "/" \o b

\* the component stack of os.path.normpath
RECURSIVE NormComps(_, _, _)
NormComps(comps, absolute, acc) ==
    IF Len(comps) = 0 THEN acc
    ELSE LET c == Head(comps) IN
         IF c = "" \/ c = "." THEN NormComps(Tail(comps), absolute, acc)
         ELSE IF c # ".."
                 \/ (~absolute /\ Len(acc) = 0)
                 \/ (Len(acc) > 0 /\ acc[Len(acc)] = "..")
              THEN NormComps(Tail(comps), absolute, Append(acc, c))
         ELSE IF Len(acc) > 0
              THEN NormComps(Tail(comps), absolute, SubSeq(acc, 1, Len(acc) - 1))
         ELSE NormComps(Tail(comps), absolute, acc)

\* os.path.normpath(p)
NormPath(p) ==
    LET absolute == StartsWith(p, "/")
        joined   == Join(NormComps(Split(p), absolute, <<>>))
        out      == IF absolute THEN "/" \o joined ELSE joined
    IN  IF out = "" THEN "." ELSE out

\* os.path.dirname(p) of a normalised path
DirName(p) ==
    LET parts == Split(p)
        head  == Join(SubSeq(parts, 1, Len(parts) - 1))
    IN  IF Len(parts) = 1 THEN ""
        ELSE IF head = "" THEN "/"
        ELSE head

\* the length of the common prefix of two component lists
RECURSIVE CommonLen(_, _)
CommonLen(a, b) ==
    IF Len(a) = 0 \/ Len(b) = 0 \/ Head(a) # Head(b) THEN 0
    ELSE 1 + CommonLen(Tail(a), Tail(b))

\* os.path.relpath(path, start) of two absolute, normalised paths
RelPath(path, start) ==
    LET pl  == SelectSeq(Split(path), LAMBDA c : c # "")
        sl  == SelectSeq(Split(start), LAMBDA c : c # "")
        i   == CommonLen(pl, sl)
        rel == [k \in 1..(Len(sl) - i) |-> ".."] \o SubSeq(pl, i + 1, Len(pl))
    IN  IF Len(rel) = 0 THEN "." ELSE Join(rel)

-----------------------------------------------------------------------------
(* JSCodeKnowledgeGraph.__init__: the fixed tables.                        *)

\* self.directory, the root the user names
directory == "/proj"

alias_map == <<
    <<"@/", "src/">>,
    <<"@components/", "components/">>,
    <<"@lib/", "lib/">>,
    <<"@utils/", "utils/">>,
    <<"@hooks/", "hooks/">>,
    <<"@contexts/", "contexts/">>,
    <<"@types/", "types/">>,
    <<"@app/", "app/">> >>

ignored_directories == {
    "node_modules", "build", "dist", "public", "static", "types", ".env", ".cache",
    "cache", ".next", "coverage", ".results", "results", "screenshots", "videos",
    "tmp", "temp", "logs", "out", "aot", ".nuxt", "migrations",
    "wwwroot", ".meteor", "local", "reports", "docs", "config", ".config", ".vscode",
    ".idea", ".git" }

ignored_files == {".gitignore", ".env"}

\* the suffixes analyze_codebase accepts
source_suffixes == <<".js", ".ts", ".jsx", ".tsx", ".d.ts">>

\* the probe list with .tsx ahead of .ts
extensions_tsx_first == <<"", ".js", ".tsx", ".jsx", ".ts", ".mjs", ".mts",
                          "/index.js", "/index.ts", "/index.jsx", "/index.tsx",
                          "/index.mjs", "/index.mts", ".d.ts">>

\* the probe list of _resolve_import_path, in its order
extensions == <<"", ".js", ".ts", ".jsx", ".tsx", ".mjs", ".mts",
                "/index.js", "/index.ts", "/index.jsx", "/index.tsx",
                "/index.mjs", "/index.mts", ".d.ts">>

-----------------------------------------------------------------------------
(* The file system: F is the set of regular files, as absolute paths.      *)

\* os.path.isfile(p), for p a normalised path with a suffix appended: the only
\* redundant separator such a p can have is a doubled leading one
IsFile(F, p) == IF StartsWith(p, "//") THEN SubSeq(p, 2, Len(p)) \in F ELSE p \in F

\* os.path.isdir(p): a directory that holds a file
IsDir(F, p) == \E f \in F : StartsWith(f, p \o "/")

-----------------------------------------------------------------------------
(* _is_in_ignored_directory and _resolve_import_path.                      *)

is_in_ignored_directory(relative_path) ==
    \E part \in Range(Split(relative_path)) : part \in ignored_directories

\* the least element of a set of indices; 0 for the empty set
MinOf(S) == IF S = {} THEN 0 ELSE CHOOSE i \in S : \A j \in S : i <= j

\* the first index at which a sequence of tests holds; 0 when there is none
First(test) == MinOf({i \in 1..Len(test) : test[i]})

\* a probe loop that returns its candidate without the ignored-directory test
Found_unchecked(full_path) == "File: " \o RelPath(NormPath(full_path), directory)

\* what a probe loop returns for the candidate it found
Found(full_path) ==
    LET relative_path == RelPath(NormPath(full_path), directory)
    IN  IF is_in_ignored_directory(relative_path) THEN None
        ELSE "File: " \o relative_path

\* lines 284-333: the three probe loops over the candidate list
probe_candidates(F, resolved_path) ==
    LET IsIndex(ext) == StartsWith(ext, "/")
        parent_dir == DirName(resolved_path)
        Exts == 1..Len(extensions)
        i1 == First([k \in Exts |-> IsFile(F, resolved_path \o extensions[k])])
        i2 == First([k \in Exts |->
                        IsIndex(extensions[k]) /\ IsFile(F, parent_dir \o extensions[k])])
        i3 == First([k \in Exts |->
                        IsIndex(extensions[k]) /\ IsFile(F, resolved_path \o extensions[k])])
    IN  IF i1 # 0 THEN Found(resolved_path \o extensions[i1])
        ELSE IF i2 # 0 THEN Found(parent_dir \o extensions[i2])
        ELSE IF IsDir(F, resolved_path) /\ i3 # 0 THEN Found(resolved_path \o extensions[i3])
        ELSE None

\* a resolver that probes the project root for a bare specifier before it
\* falls back to External
resolve_import_path_probing(F, current_file, import_path) ==
    LET probed == probe_candidates(F, NormPath(PathJoin(directory, import_path)))
    IN  IF probed # None THEN probed ELSE "External: " \o import_path

\* lines 261-282, then the probing; current_file is a file node ("File: <path>")
resolve_import_path(F, current_file, import_path) ==
    LET cf == IF StartsWith(current_file, "File: ")
              THEN SubSeq(current_file, 7, Len(current_file))
              ELSE current_file
        a  == First([k \in 1..Len(alias_map) |-> StartsWith(import_path, alias_map[k][1])])
    IN  IF a # 0
        THEN probe_candidates(F,
                 NormPath(PathJoin(directory, Replace(import_path, alias_map[a][1], alias_map[a][2]))))
        ELSE IF StartsWith(import_path, ".") \/ StartsWith(import_path, "/")
        THEN probe_candidates(F,
                 NormPath(PathJoin(DirName(PathJoin(directory, cf)), import_path)))
        ELSE "External: " \o import_path

-----------------------------------------------------------------------------
(* self.graph, a networkx.DiGraph: node maps a node key to its attributes, *)
(* adj maps a pair <<u, v>> to the relation of the one edge from u to v.   *)

\* JSCodeKnowledgeGraph.__init__: the fields of a new object.  history is not a
\* field of the program: it records, per (source, target, relation), how many
\* add_edge calls were made (2 stands for two or more)
init == [
    graph |-> [node |-> <<>>, adj |-> <<>>],
    class_methods |-> <<>>,
    function_params |-> <<>>,
    function_returns |-> <<>>,
    files_processed |-> 0,
    analyzed_files |-> {},
    exports_map |-> <<>>,
    total_classes |-> 0,
    total_functions |-> 0,
    total_components |-> 0,
    total_hooks |-> 0,
    total_dependencies |-> {},
    total_imports |-> 0,
    total_exports |-> 0,
    history |-> <<>> ]

\* a has_node that finds no node, so that every add_node call is made
has_node_never(s, n) == FALSE

has_node(s, n) == n \in DOMAIN s.graph.node

\* DiGraph.add_node(n, **attrs): a new node, or the attributes of an old one updated
add_node(s, n, attrs) ==
    [s EXCEPT !.graph.node =
        IF n \in DOMAIN @ THEN (n :> (attrs @@ @[n])) @@ @ ELSE (n :> attrs) @@ @]

\* the attribute dictionary of a node that add_edge had to create
NoAttrs == [x \in {} |-> ""]

\* DiGraph.add_edge(u, v, relation=rel): the edge from u to v is created, or the
\* relation of the existing edge from u to v is overwritten
add_edge(s, u, v, rel) ==
    LET withNodes == (u :> NoAttrs) @@ (v :> NoAttrs)
        h == s.history
        k == <<u, v, rel>>
    IN  [s EXCEPT !.graph.node = @ @@ withNodes,
                  !.graph.adj = (<<u, v>> :> rel) @@ @,
                  !.history = (k :> (IF k \in DOMAIN h THEN 2 ELSE 1)) @@ h]

\* the edges of the graph as (source, target, relation) triples
Edges(s) == {<<e[1], e[2], s.graph.adj[e]>> : e \in DOMAIN s.graph.adj}

\* dict.get(key, set()) and set.add on a dictionary of sets
GetSet(d, key) == IF key \in DOMAIN d THEN d[key] ELSE {}
AddToSet(d, key, x) == (key :> (GetSet(d, key) \cup {x})) @@ d

-----------------------------------------------------------------------------
(* Lines and tokens.  A line is the sequence of its tokens; its text is    *)
(* the tokens joined by blanks.  A group of a match is the sequence of the *)
(* tokens it captured; <<>> is a group that is empty or did not take part. *)

\* the character at position i; "" past the end
CharAt(t, i) == IF i \in 1..Len(t) THEN SubSeq(t, i, i) ELSE ""

Chars(t) == {CharAt(t, i) : i \in 1..Len(t)}

Alphabet == "abcdefghijklmnopqrstuvwxyzABCDEFGHIJKLMNOPQRSTUVWXYZ0123456789_"

\* the characters \w matches
WordChars == Chars(Alphabet)

Quotes == {"'", "\""}

\* \w+ matching the whole token
IsWord(t) == Len(t) > 0 /\ Chars(t) \subseteq WordChars

\* ['"]([^'"]+)['"] matching the whole token
IsQuoted(t) ==
    /\ Len(t) >= 3
    /\ CharAt(t, 1) \in Quotes
    /\ CharAt(t, Len(t)) \in Quotes
    /\ Chars(SubSeq(t, 2, Len(t) - 1)) \cap Quotes = {}

Unquote(t) == SubSeq(t, 2, Len(t) - 1)

\* the token at position i; "" past the end
Tok(ln, i) == IF i \in 1..Len(ln) THEN ln[i] ELSE ""

\* sub in line, for a line given by its tokens
InLine(ln, sub) == \E i \in 1..Len(ln) : Contains(ln[i], sub)

\* line.count(c) for a character c
RECURSIVE Count(_, _)
Count(ln, c) ==
    IF Len(ln) = 0 THEN 0
    ELSE Cardinality({i \in 1..Len(ln[1]) : CharAt(ln[1], i) = c}) + Count(Tail(ln), c)

\* the text of a group
RECURSIVE Text(_)
Text(g) ==
    IF Len(g) = 0 THEN ""
    ELSE IF Len(g) = 1 THEN g[1]
    ELSE g[1] \o " " \o Text(Tail(g))

\* the position of the first token equal to t at or after i; 0 when there is none
IndexOf(ln, i, t) == MinOf({j \in i..Len(ln) : ln[j] = t})

NoMatch == [groups |-> <<>>, end |-> 0]

\* re.finditer: the matches, left to right, none starting inside an earlier
\* one; at[i] is the match starting at token i, or NoMatch
RECURSIVE FindIter(_, _)
FindIter(at, i) ==
    IF i > Len(at) THEN <<>>
    ELSE IF at[i] = NoMatch THEN FindIter(at, i + 1)
    ELSE <<at[i].groups>> \o FindIter(at, at[i].end + 1)

Matches(at) == FindIter(at, 1)

-----------------------------------------------------------------------------
(* _process_imports: the patterns (lines 154-173).  Each operator gives    *)
(* the match of one pattern that starts at token i of the line.            *)

\* "from" and a quoted path at position k: the tail of most patterns
FromPath(ln, k) == Tok(ln, k) = "from" /\ IsQuoted(Tok(ln, k + 1))

\* import\s*{([^}]*)}\s*from\s*['"]([^'"]+)['"]
import_destructured(ln, i) ==
    LET j == IndexOf(ln, i + 2, "}")
    IN  IF Tok(ln, i) = "import" /\ Tok(ln, i + 1) = "{" /\ j # 0 /\ FromPath(ln, j + 1)
        THEN [groups |-> <<SubSeq(ln, i + 2, j - 1), <<Unquote(ln[j + 2])>> >>, end |-> j + 2]
        ELSE NoMatch

\* (\w+)\s*(?:,\s*{([^}]*)})?(?:\s*,\s*\*\s+as\s+\w+)?\s*from\s*['"]([^'"]+)['"]
\* with (\w+) at token k
default_tail(ln, k) ==
    LET j       == IndexOf(ln, k + 3, "}")
        hasList == Tok(ln, k + 1) = "," /\ Tok(ln, k + 2) = "{" /\ j # 0
        a       == IF hasList THEN j + 1 ELSE k + 1
        hasStar == /\ Tok(ln, a) = "," /\ Tok(ln, a + 1) = "*" /\ Tok(ln, a + 2) = "as"
                   /\ IsWord(Tok(ln, a + 3))
        b       == IF hasStar THEN a + 4 ELSE a
    IN  IF IsWord(Tok(ln, k)) /\ FromPath(ln, b)
        THEN [groups |-> << <<ln[k]>>,
                            IF hasList THEN SubSeq(ln, k + 3, j - 1) ELSE <<>>,
                            <<Unquote(ln[b + 1])>> >>,
              end |-> b + 1]
        ELSE NoMatch

\* import\s+(?:type\s+)?(\w+)... : the optional "type" is taken when the rest
\* then matches, and is the name (\w+) itself otherwise
import_default(ln, i) ==
    IF Tok(ln, i) # "import" THEN NoMatch
    ELSE IF Tok(ln, i + 1) = "type" /\ default_tail(ln, i + 2) # NoMatch
         THEN default_tail(ln, i + 2)
    ELSE default_tail(ln, i + 1)

\* import\s*\*\s+as\s+(\w+)\s+from\s*['"]([^'"]+)['"]
import_namespace(ln, i) ==
    IF /\ Tok(ln, i) = "import" /\ Tok(ln, i + 1) = "*" /\ Tok(ln, i + 2) = "as"
       /\ IsWord(Tok(ln, i + 3)) /\ FromPath(ln, i + 4)
    THEN [groups |-> << <<ln[i + 3]>>, <<Unquote(ln[i + 5])>> >>, end |-> i + 5]
    ELSE NoMatch

\* import\s*['"]([^'"]+)['"]
import_side_effect(ln, i) ==
    IF Tok(ln, i) = "import" /\ IsQuoted(Tok(ln, i + 1))
    THEN [groups |-> << <<Unquote(ln[i + 1])>> >>, end |-> i + 1]
    ELSE NoMatch

\* import\s*\(\s*['"]([^'"]+)['"]\s*\)
import_dynamic(ln, i) ==
    IF /\ Tok(ln, i) = "import" /\ Tok(ln, i + 1) = "(" /\ IsQuoted(Tok(ln, i + 2))
       /\ Tok(ln, i + 3) = ")"
    THEN [groups |-> << <<Unquote(ln[i + 2])>> >>, end |-> i + 3]
    ELSE NoMatch

\* ...\s*=\s*require\s*\(\s*['"]([^'"]+)['"]\s*\): every part before "=" is
\* optional, so the match is placed at the "="
import_require(ln, i) ==
    IF /\ Tok(ln, i) = "=" /\ Tok(ln, i + 1) = "require" /\ Tok(ln, i + 2) = "("
       /\ IsQuoted(Tok(ln, i + 3)) /\ Tok(ln, i + 4) = ")"
    THEN [groups |-> << <<Unquote(ln[i + 3])>> >>, end |-> i + 4]
    ELSE NoMatch

\* import\s+type\s*{([^}]*)}\s*from\s*['"]([^'"]+)['"]
import_type(ln, i) ==
    LET j == IndexOf(ln, i + 3, "}")
    IN  IF /\ Tok(ln, i) = "import" /\ Tok(ln, i + 1) = "type" /\ Tok(ln, i + 2) = "{"
           /\ j # 0 /\ FromPath(ln, j + 1)
        THEN [groups |-> <<SubSeq(ln, i + 3, j - 1), <<Unquote(ln[j + 2])>> >>, end |-> j + 2]
        ELSE NoMatch

\* export\s*(?:\*|{[^}]*})\s*from\s*['"]([^'"]+)['"]
import_re_export(ln, i) ==
    LET j == IndexOf(ln, i + 2, "}")
        k == IF Tok(ln, i + 1) = "*" THEN i + 2
             ELSE IF Tok(ln, i + 1) = "{" /\ j # 0 THEN j + 1
             ELSE 0
    IN  IF Tok(ln, i) = "export" /\ k # 0 /\ FromPath(ln, k)
        THEN [groups |-> << <<Unquote(ln[k + 1])>> >>, end |-> k + 1]
        ELSE NoMatch

\* export\s*=\s*require\s*\(\s*['"]([^'"]+)['"]\s*\)
import_export_equals(ln, i) ==
    IF Tok(ln, i) = "export" /\ import_require(ln, i + 1) # NoMatch
    THEN [groups |-> import_require(ln, i + 1).groups, end |-> i + 5]
    ELSE NoMatch

\* for pattern in import_patterns: re.finditer(pattern, line_to_process):
\* the groups of every match, pattern by pattern
import_matches(ln) ==
       Matches([i \in 1..Len(ln) |-> import_destructured(ln, i)])
    \o Matches([i \in 1..Len(ln) |-> import_default(ln, i)])
    \o Matches([i \in 1..Len(ln) |-> import_namespace(ln, i)])
    \o Matches([i \in 1..Len(ln) |-> import_side_effect(ln, i)])
    \o Matches([i \in 1..Len(ln) |-> import_dynamic(ln, i)])
    \o Matches([i \in 1..Len(ln) |-> import_require(ln, i)])
    \o Matches([i \in 1..Len(ln) |-> import_type(ln, i)])
    \o Matches([i \in 1..Len(ln) |-> import_re_export(ln, i)])
    \o Matches([i \in 1..Len(ln) |-> import_export_equals(ln, i)])

\* re.findall(r'(\w+)(?:\s+as\s+\w+)?', destructured): the names, an alias skipped
RECURSIVE find_names(_, _)
find_names(g, i) ==
    IF i > Len(g) THEN <<>>
    ELSE IF ~IsWord(g[i]) THEN find_names(g, i + 1)
    ELSE IF Tok(g, i + 1) = "as" /\ IsWord(Tok(g, i + 2))
         THEN <<g[i]>> \o find_names(g, i + 3)
    ELSE <<g[i]>> \o find_names(g, i + 1)

\* lines 217-232: the entities one match binds, and its path (the last group)
import_of_match(ln, groups) ==
    LET withBrace    == {k \in 1..Len(groups) : groups[k] # <<>> /\ InLine(groups[k], "{")}
        destructured == IF withBrace = {} THEN <<>> ELSE groups[MinOf(withBrace)]
    IN  [entities |-> IF InLine(ln, "{")
                      THEN (IF destructured # <<>> THEN find_names(destructured, 1) ELSE <<>>)
                      ELSE (IF groups[1] # <<>> THEN <<Text(groups[1])>> ELSE <<>>),
         path |-> Text(groups[Len(groups)])]

imports_of_line(ln) ==
    LET ms == import_matches(ln) IN [k \in 1..Len(ms) |-> import_of_match(ln, ms[k])]

\* the test that closes a statement: balanced braces and parentheses, and one
\* of ; ) } somewhere in it
Complete(ln) ==
    /\ Count(ln, "{") = Count(ln, "}")
    /\ InLine(ln, ";") \/ InLine(ln, ")") \/ InLine(ln, "}")
    /\ Count(ln, "(") = Count(ln, ")")

\* lines 176-232: the loop over the lines, with its accumulator current_import
RECURSIVE scan_lines(_, _, _)
scan_lines(lines, current_import, all_imports) ==
    IF Len(lines) = 0 THEN all_imports
    ELSE LET line == Head(lines)
             rest == Tail(lines)
         IN  IF Len(line) = 0 THEN scan_lines(rest, current_import, all_imports)
             ELSE IF /\ InLine(line, "import") \/ InLine(line, "require") \/ InLine(line, "export")
                     /\ InLine(line, "from")
                  THEN IF ~Complete(line)
                       THEN scan_lines(rest, line, all_imports)
                       ELSE scan_lines(rest, current_import, all_imports \o imports_of_line(line))
             ELSE IF Len(current_import) # 0
                  THEN IF Complete(current_import \o line)
                       THEN scan_lines(rest, <<>>,
                                       all_imports \o imports_of_line(current_import \o line))
                       ELSE scan_lines(rest, current_import \o line, all_imports)
             ELSE scan_lines(rest, current_import, all_imports)

\* lines 246-253: the entities of one import linked to the file and, when the
\* imported file is known to export them, to the imported file
RECURSIVE link_entities(_, _, _, _)
link_entities(s, file_node, imported_file, entities) ==
    IF Len(entities) = 0 THEN s
    ELSE LET entity      == Head(entities)
             entity_node == "Entity: " \o entity
             s1 == IF has_node(s, entity_node) THEN s
                   ELSE add_node(s, entity_node, [type |-> "entity", name |-> entity])
             s2 == add_edge(s1, file_node, entity_node, "USES_ENTITY")
             s3 == IF entity \in GetSet(s2.exports_map, imported_file)
                   THEN add_edge(s2, entity_node, imported_file, "DEFINED_IN")
                   ELSE s2
         IN  link_entities(s3, file_node, imported_file, Tail(entities))

\* lines 235-259: the loop over all_imports
RECURSIVE resolve_imports(_, _, _, _)
resolve_imports(s, F, file_node, all_imports) ==
    IF Len(all_imports) = 0 THEN s
    ELSE LET imp           == Head(all_imports).path
             imported_file == resolve_import_path(F, file_node, imp)
             s1 == IF has_node(s, imported_file) THEN s
                   ELSE add_node(s, imported_file, [type |-> "file"])
             s2 == add_edge(s1, file_node, imported_file, "IMPORTS")
             s3 == link_entities(s2, file_node, imported_file, Head(all_imports).entities)
             s4 == [s3 EXCEPT !.total_imports = @ + 1,
                              !.total_dependencies = @ \cup {imp}]
         IN  resolve_imports(IF imp = "" \/ imported_file = None THEN s ELSE s4,
                             F, file_node, Tail(all_imports))

process_imports(s, F, lines, file_node) ==
    resolve_imports(s, F, file_node, scan_lines(lines, <<>>, <<>>))

-----------------------------------------------------------------------------
(* _process_exports (lines 615-667).  The patterns run over the whole      *)
(* content: the tokens of all its lines, one after the other.              *)

RECURSIVE Flatten(_)
Flatten(lines) == IF Len(lines) = 0 THEN <<>> ELSE Head(lines) \o Flatten(Tail(lines))

export_patterns == <<
    "export\\s+(?:const|let|var|function|class)\\s+(\\w+)",
    "export\\s+default\\s+(?:class\\s+)?(\\w+)",
    "export\\s*{\\s*((?:\\w+(?:\\s+as\\s+\\w+)?(?:\\s*,\\s*)?)+)\\s*}",
    "export\\s*\\*\\s*from\\s*[\\'\"]([^\\'\"]+)[\\'\"]",
    "export\\s+type\\s+(\\w+)",
    "export\\s+function\\s+(\\w+)\\s*\\(" >>

\* text.split(','), on tokens: the pieces between the commas
RECURSIVE SplitComma(_, _, _)
SplitComma(g, piece, acc) ==
    IF Len(g) = 0 THEN Append(acc, piece)
    ELSE IF Head(g) = "," THEN SplitComma(Tail(g), <<>>, Append(acc, piece))
    ELSE SplitComma(Tail(g), Append(piece, Head(g)), acc)

\* (?:\w+(?:\s+as\s+\w+)?(?:\s*,\s*)?)+ : names, each with an optional alias,
\* separated by commas, with an optional comma after the last
IsExportList(g) ==
    LET pieces == SplitComma(g, <<>>, <<>>)
        IsItem(q) == \/ Len(q) = 1 /\ IsWord(q[1])
                     \/ Len(q) = 3 /\ IsWord(q[1]) /\ q[2] = "as" /\ IsWord(q[3])
    IN  /\ IsItem(pieces[1])
        /\ \A k \in 2..Len(pieces) : IsItem(pieces[k]) \/ (k = Len(pieces) /\ pieces[k] = <<>>)

\* the match of export pattern p that starts at token i
export_match(p, ln, i) ==
    LET j == IndexOf(ln, i + 2, "}") IN
    IF Tok(ln, i) # "export" THEN NoMatch
    ELSE IF p = 1 THEN
        IF Tok(ln, i + 1) \in {"const", "let", "var", "function", "class"} /\ IsWord(Tok(ln, i + 2))
        THEN [groups |-> << <<ln[i + 2]>> >>, end |-> i + 2] ELSE NoMatch
    ELSE IF p = 2 THEN
        IF Tok(ln, i + 1) = "default" /\ Tok(ln, i + 2) = "class" /\ IsWord(Tok(ln, i + 3))
        THEN [groups |-> << <<ln[i + 3]>> >>, end |-> i + 3]
        ELSE IF Tok(ln, i + 1) = "default" /\ IsWord(Tok(ln, i + 2))
        THEN [groups |-> << <<ln[i + 2]>> >>, end |-> i + 2] ELSE NoMatch
    ELSE IF p = 3 THEN
        IF Tok(ln, i + 1) = "{" /\ j > i + 2 /\ IsExportList(SubSeq(ln, i + 2, j - 1))
        THEN [groups |-> <<SubSeq(ln, i + 2, j - 1)>>, end |-> j] ELSE NoMatch
    ELSE IF p = 4 THEN
        IF Tok(ln, i + 1) = "*" /\ FromPath(ln, i + 2)
        THEN [groups |-> << <<Unquote(ln[i + 3])>> >>, end |-> i + 3] ELSE NoMatch
    ELSE IF p = 5 THEN
        IF Tok(ln, i + 1) = "type" /\ IsWord(Tok(ln, i + 2))
        THEN [groups |-> << <<ln[i + 2]>> >>, end |-> i + 2] ELSE NoMatch
    ELSE
        IF Tok(ln, i + 1) = "function" /\ IsWord(Tok(ln, i + 2)) /\ Tok(ln, i + 3) = "("
        THEN [groups |-> << <<ln[i + 2]>> >>, end |-> i + 3] ELSE NoMatch

\* lines 645-664: the names of one match, each an Entity node of type "export"
\* with an EXPORTS edge, and a member of the file's export set
RECURSIVE export_names(_, _, _)
export_names(s, file_node, pieces) ==
    IF Len(pieces) = 0 THEN s
    ELSE LET export_name == IF Len(Head(pieces)) = 0 THEN "" ELSE Head(pieces)[1]
             export_node == "Entity: " \o export_name
             s1 == IF has_node(s, export_node) THEN s
                   ELSE add_node(s, export_node, [type |-> "export", name |-> export_name])
             s2 == add_edge(s1, file_node, export_node, "EXPORTS")
             s3 == [s2 EXCEPT !.exports_map = AddToSet(@, file_node, export_name),
                              !.total_exports = @ + 1]
         IN  export_names(s3, file_node, Tail(pieces))

\* lines 635-643: a re-export, resolved like an import
re_export(s, F, file_node, module_path) ==
    LET exported_file == resolve_import_path(F, file_node, module_path)
        s1 == IF has_node(s, exported_file) THEN s
              ELSE add_node(s, exported_file, [type |-> "file"])
    IN  IF exported_file = None THEN s
        ELSE add_edge(s1, file_node, exported_file, "RE_EXPORTS")

\* for match in re.finditer(pattern, content), for one pattern
RECURSIVE export_each(_, _, _, _, _)
export_each(s, F, file_node, p, ms) ==
    IF Len(ms) = 0 THEN s
    ELSE export_each(
             IF Contains(export_patterns[p], "from")
             THEN re_export(s, F, file_node, Text(Head(ms)[1]))
             ELSE export_names(s, file_node, SplitComma(Head(ms)[1], <<>>, <<>>)),
             F, file_node, p, Tail(ms))

\* for pattern in export_patterns, from pattern p on
RECURSIVE export_from(_, _, _, _, _)
export_from(s, F, tokens, file_node, p) ==
    IF p > Len(export_patterns) THEN s
    ELSE export_from(
             export_each(s, F, file_node, p, Matches([i \in 1..Len(tokens) |-> export_match(p, tokens, i)])),
             F, tokens, file_node, p + 1)

process_exports(s, F, lines, file_node) == export_from(s, F, Flatten(lines), file_node, 1)

-----------------------------------------------------------------------------
(* _parse_parameters and _parse_single_parameter (lines 567-613), on the   *)
(* characters of the parameter text.                                       *)

Whitespace == {" ", "\t", "\n", "\r"}

RECURSIVE LStrip(_)
LStrip(t) == IF Len(t) > 0 /\ CharAt(t, 1) \in Whitespace THEN LStrip(SubSeq(t, 2, Len(t))) ELSE t

RECURSIVE RStrip(_)
RStrip(t) ==
    IF Len(t) > 0 /\ CharAt(t, Len(t)) \in Whitespace THEN RStrip(SubSeq(t, 1, Len(t) - 1)) ELSE t

\* str.strip()
Strip(t) == RStrip(LStrip(t))

\* the length of the longest prefix of t all of whose characters are in S
RECURSIVE Span(_, _)
Span(t, S) == IF Len(t) > 0 /\ CharAt(t, 1) \in S THEN 1 + Span(SubSeq(t, 2, Len(t)), S) ELSE 0

\* the length of the longest prefix of t none of whose characters is in S
RECURSIVE SpanNot(_, _)
SpanNot(t, S) ==
    IF Len(t) > 0 /\ CharAt(t, 1) \notin S THEN 1 + SpanNot(SubSeq(t, 2, Len(t)), S) ELSE 0

From(t, i) == SubSeq(t, i, Len(t))

NoGroups == <<>>

\* ([^=]+) at the start of r
type_text(r) == SubSeq(r, 1, SpanNot(r, {"="}))

\* :\s*([^=]+) at the start of b, after a name of n characters
type_match_colon(t, n, b) ==
    IF n > 0 /\ CharAt(b, 1) = ":" /\ CharAt(b, 2) \notin {"", "="}
    THEN <<SubSeq(t, 1, n), type_text(From(b, 2))>>
    ELSE NoGroups

\* (?:\?|!)? at the start of a, then the rest
type_match_mark(t, n, a) ==
    type_match_colon(t, n, IF CharAt(a, 1) \in {"?", "!"} THEN From(a, 2) ELSE a)

\* \s* after a name of n characters, then the rest
type_match_name(t, n) == type_match_mark(t, n, LStrip(From(t, n + 1)))

\* (\w+)\s*(?:\?|!)?:\s*([^=]+) matched at the start of t: <<name, type text>>
type_match_at(t) == type_match_name(t, Span(t, WordChars))

\* the match with the readonly prefix if there is one, else the match without
type_match_pick(param, with_readonly) ==
    IF with_readonly # NoGroups THEN with_readonly ELSE type_match_at(param)

\* re.match(r'(?:readonly\s+)?(\w+)\s*(?:\?|!)?:\s*([^=]+)', param)
type_match(param) ==
    type_match_pick(param,
        IF StartsWith(param, "readonly") /\ Span(From(param, 9), Whitespace) > 0
        THEN type_match_at(LStrip(From(param, 9)))
        ELSE NoGroups)

\* (.+) at the start of v
default_text(v) == SubSeq(v, 1, SpanNot(v, {"\n"}))

\* \s*(.+) at the start of r
default_value(r) == default_text(IF default_text(LStrip(r)) # "" THEN LStrip(r) ELSE r)

\* =\s*(.+) at the start of a, after a name of n characters
default_match_equals(param, n, a) ==
    IF n > 0 /\ CharAt(a, 1) = "=" /\ default_value(From(a, 2)) # ""
    THEN <<SubSeq(param, 1, n), default_value(From(a, 2))>>
    ELSE NoGroups

\* \s* after a name of n characters, then the rest
default_match_name(param, n) == default_match_equals(param, n, LStrip(From(param, n + 1)))

\* re.match(r'(\w+)\s*=\s*(.+)', param): <<name, default text>>
default_match(param) == default_match_name(param, Span(param, WordChars))

\* lines 595-611: the dictionary, from the two matches
param_dict(param, tm, dm) ==
       (IF StartsWith(param, "{") \/ StartsWith(param, "[")
        THEN "destructured" :> TRUE ELSE NoAttrs)
    @@ (IF dm # NoGroups THEN "default" :> dm[2] ELSE NoAttrs)
    @@ (IF tm # NoGroups THEN "type" :> Strip(tm[2]) ELSE NoAttrs)
    @@ ("name" :> (IF dm # NoGroups THEN dm[1] ELSE IF tm # NoGroups THEN tm[1] ELSE param))

parse_single_parameter(param) == param_dict(param, type_match(param), default_match(param))

\* lines 582-584 and 588-589: the parameter in hand, if it is not blank, joins the list
flush(current_param, params) ==
    IF Strip(current_param) # ""
    THEN Append(params, parse_single_parameter(Strip(current_param)))
    ELSE params

\* lines 576-589: the loop over the characters, with its depth counter
RECURSIVE split_parameters(_, _, _, _)
split_parameters(str, depth, current_param, params) ==
    IF Len(str) = 0 THEN flush(current_param, params)
    ELSE IF CharAt(str, 1) \in {"{", "[", "("}
         THEN split_parameters(From(str, 2), depth + 1, current_param \o CharAt(str, 1), params)
    ELSE IF CharAt(str, 1) \in {"}", "]", ")"}
         THEN split_parameters(From(str, 2), depth - 1, current_param \o CharAt(str, 1), params)
    ELSE IF CharAt(str, 1) = "," /\ depth = 0
         THEN split_parameters(From(str, 2), depth, "", flush(current_param, params))
    ELSE split_parameters(From(str, 2), depth, current_param \o CharAt(str, 1), params)

parse_parameters(params_str) == split_parameters(params_str, 0, "", <<>>)

-----------------------------------------------------------------------------
(* _process_classes (lines 347-391).  The groups of a class match are the  *)
(* name, the body and, last, the whole match (group(0)).                   *)

class_patterns == <<
    "(?:export\\s+)?(?:abstract\\s+)?class\\s+(\\w+)(?:\\s+extends\\s+[^{]+)?\\s*{([^}]*)}",
    "(?:export\\s+)?interface\\s+(\\w+)(?:\\s+extends\\s+[^{]+)?\\s*{([^}]*)}",
    "(?:export\\s+)?type\\s+(\\w+)\\s*=\\s*{([^}]*)}",
    "(?:export\\s+)?class\\s+(\\w+)\\s+extends\\s+(?:React\\.)?Component\\s*[^{]*{([^}]*)}",
    "(?:export\\s+)?class\\s+(\\w+)\\s+extends\\s+(?:React\\.)?PureComponent\\s*[^{]*{([^}]*)}" >>

\* the name at token k, then what the pattern wants up to the opening brace,
\* then the body up to the first closing brace character; the match began at
\* token i
class_tail(p, ln, i, k) ==
    LET base  == Tok(ln, k + 2)
        open  == IF p \in {1, 2}
                 THEN (IF Tok(ln, k + 1) = "{" THEN k + 1
                       ELSE IF Tok(ln, k + 1) = "extends" /\ Tok(ln, k + 2) # "{"
                                  /\ ~Contains(Tok(ln, k + 2), "{")
                            THEN IndexOf(ln, k + 3, "{")
                       ELSE 0)
                 ELSE IF p = 3
                 THEN (IF Tok(ln, k + 1) = "=" /\ Tok(ln, k + 2) = "{" THEN k + 2 ELSE 0)
                 ELSE IF p = 4
                 THEN (IF Tok(ln, k + 1) = "extends"
                          /\ (StartsWith(base, "Component") \/ StartsWith(base, "React.Component"))
                          /\ ~Contains(base, "{")
                       THEN IndexOf(ln, k + 3, "{") ELSE 0)
                 ELSE (IF Tok(ln, k + 1) = "extends"
                          /\ (StartsWith(base, "PureComponent")
                              \/ StartsWith(base, "React.PureComponent"))
                          /\ ~Contains(base, "{")
                       THEN IndexOf(ln, k + 3, "{") ELSE 0)
        close == IF open = 0 THEN 0 ELSE MinOf({j \in (open + 1)..Len(ln) : Contains(ln[j], "}")})
        part  == SubSeq(ln[close], 1, SpanNot(ln[close], {"}"}))
    IN  IF IsWord(Tok(ln, k)) /\ open # 0 /\ close # 0
        THEN [groups |-> << <<ln[k]>>,
                            SubSeq(ln, open + 1, close - 1) \o (IF part = "" THEN <<>> ELSE <<part>>),
                            SubSeq(ln, i, close) >>,
              end |-> close]
        ELSE NoMatch

\* the match of class pattern p that starts at token i: the optional words
\* before the name, then class_tail
class_match(p, ln, i) ==
    LET keyword == IF p = 2 THEN "interface" ELSE IF p = 3 THEN "type" ELSE "class"
        a == IF Tok(ln, i) = "export" THEN i + 1 ELSE i
        b == IF p = 1 /\ Tok(ln, a) = "abstract" THEN a + 1 ELSE a
    IN  IF Tok(ln, b) = keyword THEN class_tail(p, ln, i, b + 1) ELSE NoMatch

\* the longest run of word characters that ends the token
RECURSIVE SpanBack(_, _)
SpanBack(t, S) ==
    IF Len(t) > 0 /\ CharAt(t, Len(t)) \in S THEN 1 + SpanBack(SubSeq(t, 1, Len(t) - 1), S) ELSE 0

WordSuffix(t) == From(t, Len(t) - SpanBack(t, WordChars) + 1)

WordPrefix(t) == SubSeq(t, 1, Span(t, WordChars))

\* (?:<[^>]*>)? at token k: the position of the token after it
after_generic(ln, k) ==
    LET j == MinOf({j \in k..Len(ln) : Contains(ln[j], ">")})
    IN  IF StartsWith(Tok(ln, k), "<") /\ j # 0 /\ SpanNot(ln[j], {">"}) = Len(ln[j]) - 1
        THEN j + 1
        ELSE k

\* \((.*?)\)(?:\s*:\s*([^{;]*))? at token k: the parameters up to the first
\* closing parenthesis, then the return type up to the first { or ;
signature(ln, k) ==
    LET close == IndexOf(ln, k + 1, ")")
        stop  == MinOf({j \in (close + 2)..Len(ln) : Chars(ln[j]) \cap {"{", ";"} # {}})
        last  == IF stop = 0 THEN Len(ln) ELSE stop - 1
        part  == IF stop = 0 THEN "" ELSE SubSeq(ln[stop], 1, SpanNot(ln[stop], {"{", ";"}))
    IN  IF Tok(ln, k) # "(" \/ close = 0 THEN NoMatch
        ELSE IF Tok(ln, close + 1) = ":"
        THEN [groups |-> << SubSeq(ln, k + 1, close - 1),
                            SubSeq(ln, close + 2, last) \o (IF part = "" THEN <<>> ELSE <<part>>) >>,
              end |-> IF part = "" THEN last ELSE stop]
        ELSE [groups |-> << SubSeq(ln, k + 1, close - 1), <<>> >>, end |-> close]

\* the match of method_pattern (lines 395-406) whose name is at token i; the
\* modifiers before the name are optional and capture nothing
method_match(ln, i) ==
    LET sig == signature(ln, after_generic(ln, i + 1))
    IN  IF WordSuffix(Tok(ln, i)) # "" /\ sig # NoMatch
        THEN [groups |-> << <<WordSuffix(ln[i])>> >> \o sig.groups, end |-> sig.end]
        ELSE NoMatch

lifecycle_methods == {
    "componentDidMount", "componentDidUpdate", "componentWillUnmount",
    "shouldComponentUpdate", "getSnapshotBeforeUpdate", "componentDidCatch",
    "getDerivedStateFromProps", "getDerivedStateFromError", "render" }

\* dict[key] = value
SetKey(d, key, value) == (key :> value) @@ d

\* lines 416-444: one match
method_one(s, class_node, groups) ==
    LET method_name == groups[1][1]
        parameters  == Text(groups[2])
        return_type == IF Len(groups[3]) # 0 THEN Text(groups[3]) ELSE None
        method_node == "Function: " \o method_name \o " (" \o class_node \o ")"
        s1 == IF has_node(s, method_node) THEN s
              ELSE add_node(s, method_node,
                       [type |-> "function", name |-> method_name,
                        parameters |-> parse_parameters(parameters),
                        return_type |-> return_type,
                        is_lifecycle_method |-> method_name \in lifecycle_methods])
        s2 == add_edge(s1, class_node, method_node, "HAS_FUNCTION")
    IN  [s2 EXCEPT !.class_methods = AddToSet(@, class_node, method_name),
                   !.function_params = SetKey(@, method_node, parse_parameters(parameters)),
                   !.function_returns =
                       IF return_type # None THEN SetKey(@, method_node, return_type) ELSE @,
                   !.total_functions = @ + 1]

RECURSIVE method_each(_, _, _)
method_each(s, class_node, ms) ==
    IF Len(ms) = 0 THEN s
    ELSE method_each(method_one(s, class_node, Head(ms)), class_node, Tail(ms))

\* _process_class_methods (lines 393-447)
process_class_methods(s, class_body, class_node) ==
    method_each(s, class_node, Matches([i \in 1..Len(class_body) |-> method_match(class_body, i)]))

\* lines 364-388: one match
class_one(s, file_node, p, groups) ==
    LET class_name == groups[1][1]
        class_node == "Class: " \o class_name \o " (" \o file_node \o ")"
        s1 == IF has_node(s, class_node) THEN s
              ELSE add_node(s, class_node,
                       [type |-> "class", name |-> class_name,
                        is_react_component |-> Contains(class_patterns[p], "Component")
                                               \/ Contains(class_patterns[p], "PureComponent")])
        s2 == add_edge(s1, file_node, class_node, "DEFINES")
        s3 == IF Len(groups[2]) # 0 THEN process_class_methods(s2, groups[2], class_node) ELSE s2
        s4 == IF InLine(groups[3], "export")
              THEN [s3 EXCEPT !.exports_map = AddToSet(@, file_node, class_name)]
              ELSE s3
    IN  [s4 EXCEPT !.total_classes = @ + 1]

RECURSIVE class_each(_, _, _, _)
class_each(s, file_node, p, ms) ==
    IF Len(ms) = 0 THEN s
    ELSE class_each(class_one(s, file_node, p, Head(ms)), file_node, p, Tail(ms))

RECURSIVE class_from(_, _, _, _)
class_from(s, tokens, file_node, p) ==
    IF p > Len(class_patterns) THEN s
    ELSE class_from(
             class_each(s, file_node, p, Matches([i \in 1..Len(tokens) |-> class_match(p, tokens, i)])),
             tokens, file_node, p + 1)

process_classes(s, lines, file_node) == class_from(s, Flatten(lines), file_node, 1)

-----------------------------------------------------------------------------
(* _process_functions (lines 449-522).  The groups of a function match are *)
(* the name, the parameters, the return type and, last, the whole match.   *)

Declarators == {"const", "let", "var"}

\* \((.*?)\)(?:\s*:\s*([^{;]*))?\s*=> at token k: the parameters end at the
\* first closing parenthesis after which the rest of the pattern matches
arrow_signature(ln, k) ==
    LET arrow(c) == IF Tok(ln, c + 1) = "=>" THEN c + 1
                    ELSE IF Tok(ln, c + 1) # ":" THEN 0
                    ELSE LET stop == MinOf({j \in (c + 2)..Len(ln) :
                                               Chars(ln[j]) \cap {"{", ";"} # {}})
                             last == IF stop = 0 THEN Len(ln) ELSE stop - 1
                             S    == {j \in (c + 2)..last : ln[j] = "=>"}
                         IN  IF S = {} THEN 0 ELSE CHOOSE j \in S : \A m \in S : m <= j
        close    == MinOf({c \in (k + 1)..Len(ln) : ln[c] = ")" /\ arrow(c) # 0})
    IN  IF Tok(ln, k) # "(" \/ close = 0 THEN NoMatch
        ELSE [groups |-> << SubSeq(ln, k + 1, close - 1),
                            SubSeq(ln, close + 2, arrow(close) - 1) >>,
              end |-> arrow(close)]

\* the match of function pattern p (lines 451-466) that starts at token i
function_match(p, ln, i) ==
    LET a     == IF Tok(ln, i) = "export" THEN i + 1 ELSE i
        b     == IF p = 1 /\ Tok(ln, a) = "async" THEN a + 1 ELSE a
        g     == after_generic(ln, b + 1)
        name  == b + 1
        eq    == MinOf({j \in (name + 2)..Len(ln) : Contains(ln[j], "=")})
        type  == Tok(ln, name + 2)
        value == IF p = 2 THEN eq + 1 ELSE name + 2
        open  == IF Tok(ln, value) = "async" THEN value + 1 ELSE value
        word  == WordPrefix(Tok(ln, name + 2))
        found(nm, groups, end) ==
            [groups |-> << <<nm>> >> \o groups \o << SubSeq(ln, i, end) >>, end |-> end]
        with(sig, nm) ==
            IF sig = NoMatch THEN NoMatch ELSE found(nm, sig.groups, sig.end)
    IN  IF p = 1
        THEN IF Tok(ln, b) = "function" /\ IsWord(Tok(ln, g))
             THEN with(signature(ln, g + 1), ln[g]) ELSE NoMatch
        ELSE IF p = 6
        THEN IF /\ Tok(ln, a) \in Declarators \cup {"function"}
                /\ StartsWith(Tok(ln, a + 1), "use") /\ Len(WordPrefix(Tok(ln, a + 1))) > 3
             THEN found(WordPrefix(ln[a + 1]), << <<>>, <<>> >>, a + 1) ELSE NoMatch
        ELSE IF ~(Tok(ln, a) \in Declarators /\ IsWord(Tok(ln, name))) THEN NoMatch
        ELSE IF p = 2
        THEN IF /\ Tok(ln, name + 1) = ":"
                /\ \E t \in {"FC", "FunctionComponent", "ComponentType"} :
                       StartsWith(type, t) \/ StartsWith(type, "React." \o t)
                /\ eq # 0 /\ SpanNot(Tok(ln, eq), {"="}) = Len(Tok(ln, eq)) - 1
             THEN with(signature(ln, open), ln[name]) ELSE NoMatch
        ELSE IF Tok(ln, name + 1) # "=" THEN NoMatch
        ELSE IF p = 3 THEN with(arrow_signature(ln, open), ln[name])
        ELSE IF p = 4
        THEN IF StartsWith(Tok(ln, name + 2), "React.memo(")
             THEN found(ln[name], << <<>>, <<>> >>, name + 2) ELSE NoMatch
        ELSE IF p = 5
        THEN IF StartsWith(Tok(ln, name + 2), "React.forwardRef(")
             THEN found(ln[name], << <<>>, <<>> >>, name + 2) ELSE NoMatch
        ELSE IF /\ StartsWith(word, "with") /\ Len(word) > 4
                /\ CharAt(Tok(ln, name + 2), Len(word) + 1) = "("
             THEN found(ln[name], << <<>>, <<>> >>, name + 2) ELSE NoMatch

function_patterns == <<
    "(?:export\\s+)?(?:async\\s+)?function\\s*(?:<[^>]*>)?\\s*(\\w+)\\s*\\((.*?)\\)(?:\\s*:\\s*([^{;]*))?",
    "(?:export\\s+)?(?:const|let|var)\\s+(\\w+)\\s*:\\s*(?:React\\.)?(?:FC|FunctionComponent|ComponentType)[^=]*=\\s*(?:async\\s*)?\\((.*?)\\)(?:\\s*:\\s*([^{;]*))?",
    "(?:export\\s+)?(?:const|let|var)\\s+(\\w+)\\s*=\\s*(?:async\\s*)?\\((.*?)\\)(?:\\s*:\\s*([^{;]*))?\\s*=>",
    "(?:export\\s+)?(?:const|let|var)\\s+(\\w+)\\s*=\\s*React\\.memo\\(",
    "(?:export\\s+)?(?:const|let|var)\\s+(\\w+)\\s*=\\s*React\\.forwardRef\\(",
    "(?:export\\s+)?(?:function|const|let|var)\\s+(use\\w+)",
    "(?:export\\s+)?(?:const|let|var)\\s+(\\w+)\\s*=\\s*with\\w+\\(" >>

\* line 475: re.search(r'\.\s*' + func_name + r'\s*\(', content)
is_method_call(ln, func_name) ==
    \E i \in 1..Len(ln) :
        \/ /\ \/ EndsWith(ln[i], "." \o func_name)
              \/ ln[i] = func_name /\ EndsWith(Tok(ln, i - 1), ".")
           /\ StartsWith(Tok(ln, i + 1), "(")
        \/ Contains(ln[i], "." \o func_name \o "(")
        \/ StartsWith(ln[i], func_name \o "(") /\ EndsWith(Tok(ln, i - 1), ".")

\* lines 472-519: one match
function_one(s, ln, file_node, groups) ==
    LET func_name    == groups[1][1]
        parameters   == Text(groups[2])
        return_type  == IF Len(groups[3]) # 0 THEN Text(groups[3]) ELSE None
        func_node    == "Function: " \o func_name \o " (" \o file_node \o ")"
        is_hook      == StartsWith(func_name, "use")
        is_component == \E suffix \in {"Page", "Component", "View", "Layout"} :
                            Contains(func_name, suffix)
        s1 == IF has_node(s, func_node) THEN s
              ELSE add_node(s, func_node,
                       [type |-> "function", name |-> func_name,
                        parameters |-> parse_parameters(parameters),
                        return_type |-> return_type,
                        is_hook |-> is_hook, is_component |-> is_component])
        s2 == add_edge(s1, file_node, func_node, "DEFINES")
    IN  IF is_method_call(ln, func_name) THEN s
        ELSE [s2 EXCEPT
                 !.function_params = SetKey(@, func_node, parse_parameters(parameters)),
                 !.function_returns =
                     IF return_type # None THEN SetKey(@, func_node, return_type) ELSE @,
                 !.exports_map =
                     IF InLine(groups[4], "export") THEN AddToSet(@, file_node, func_name) ELSE @,
                 !.total_components = IF is_component THEN @ + 1 ELSE @,
                 !.total_hooks = IF ~is_component /\ is_hook THEN @ + 1 ELSE @,
                 !.total_functions = IF ~is_component /\ ~is_hook THEN @ + 1 ELSE @]

RECURSIVE function_each(_, _, _, _)
function_each(s, ln, file_node, ms) ==
    IF Len(ms) = 0 THEN s
    ELSE function_each(function_one(s, ln, file_node, Head(ms)), ln, file_node, Tail(ms))

RECURSIVE function_from(_, _, _, _)
function_from(s, tokens, file_node, p) ==
    IF p > Len(function_patterns) THEN s
    ELSE function_from(
             function_each(s, tokens, file_node,
                           Matches([i \in 1..Len(tokens) |-> function_match(p, tokens, i)])),
             tokens, file_node, p + 1)

process_functions(s, lines, file_node) == function_from(s, Flatten(lines), file_node, 1)

-----------------------------------------------------------------------------
(* _process_jsx_components and _process_hooks.                             *)

Uppercase == Chars("ABCDEFGHIJKLMNOPQRSTUVWXYZ")

\* <([A-Z]\w+) at character p of token t: the name, or "" when it does not
\* match there or what follows the name in the token is not > or />
jsx_name(t, p) ==
    LET n    == Span(From(t, p + 1), WordChars)
        rest == From(t, p + 1 + n)
    IN  IF /\ CharAt(t, p) = "<" /\ CharAt(t, p + 1) \in Uppercase /\ n >= 2
           /\ (rest = "" \/ StartsWith(rest, ">") \/ StartsWith(rest, "/>"))
        THEN SubSeq(t, p + 1, p + n)
        ELSE ""

\* the match of component_pattern (line 527) in token i: the attributes, if
\* any, run to the first token with a > (attribute values hold none)
jsx_match(ln, i) ==
    LET t     == ln[i]
        p     == MinOf({q \in 1..Len(t) : jsx_name(t, q) # ""})
        name  == jsx_name(t, p)
        alone == p + Len(name) = Len(t)
        close == MinOf({j \in (i + 1)..Len(ln) : Contains(ln[j], ">")})
    IN  IF p = 0 \/ (alone /\ close = 0) THEN NoMatch
        ELSE [groups |-> << <<name>> >>, end |-> IF alone THEN close ELSE i]

\* lines 531-541: one match
jsx_one(s, file_node, groups) ==
    LET component_name == groups[1][1]
        component_node == "Component: " \o component_name
        s1 == IF has_node(s, component_node) THEN s
              ELSE add_node(s, component_node, [type |-> "component", name |-> component_name])
    IN  add_edge(s1, file_node, component_node, "USES_COMPONENT")

RECURSIVE jsx_each(_, _, _)
jsx_each(s, file_node, ms) ==
    IF Len(ms) = 0 THEN s ELSE jsx_each(jsx_one(s, file_node, Head(ms)), file_node, Tail(ms))

\* _process_jsx_components (lines 524-544)
process_jsx_components(s, lines, file_node) ==
    LET tokens == Flatten(lines)
    IN  jsx_each(s, file_node, Matches([i \in 1..Len(tokens) |-> jsx_match(tokens, i)]))

\* (use\w+)\s*\( from character p of token t on, nxt being the next token:
\* the names matched, left to right
RECURSIVE hook_scan(_, _, _)
hook_scan(t, nxt, p) ==
    LET n == Span(From(t, p + 3), WordChars)
        q == p + 2 + n
    IN  IF p + 3 > Len(t) THEN <<>>
        ELSE IF /\ SubSeq(t, p, p + 2) = "use" /\ n >= 1
                /\ \/ q = Len(t) /\ StartsWith(nxt, "(")
                   \/ CharAt(t, q + 1) = "("
        THEN << <<SubSeq(t, p, q)>> >> \o hook_scan(t, nxt, q + 1)
        ELSE hook_scan(t, nxt, p + 1)

\* re.finditer(hook_pattern, content) (line 550): the groups of the matches
RECURSIVE hook_matches(_, _)
hook_matches(ln, i) ==
    IF i > Len(ln) THEN <<>>
    ELSE hook_scan(ln[i], Tok(ln, i + 1), 1) \o hook_matches(ln, i + 1)

\* lines 552-562: one match
hook_one(s, file_node, groups) ==
    LET hook_name == groups[1]
        hook_node == "Hook: " \o hook_name
        s1 == IF has_node(s, hook_node) THEN s
              ELSE add_node(s, hook_node, [type |-> "hook", name |-> hook_name])
    IN  add_edge(s1, file_node, hook_node, "USES_HOOK")

RECURSIVE hook_each(_, _, _)
hook_each(s, file_node, ms) ==
    IF Len(ms) = 0 THEN s ELSE hook_each(hook_one(s, file_node, Head(ms)), file_node, Tail(ms))

\* _process_hooks (lines 546-565)
process_hooks(s, lines, file_node) == hook_each(s, file_node, hook_matches(Flatten(lines), 1))

-----------------------------------------------------------------------------
(* _process_file (lines 118-150) and the walk of analyze_codebase.         *)

FileNode(file_path) == "File: " \o RelPath(file_path, directory)

\* process_file_begin without the visited guard of lines 120-121
process_file_begin_unguarded(s, file_path) ==
    LET s1 == [s EXCEPT !.files_processed = @ + 1,
                        !.analyzed_files = @ \cup {file_path}]
    IN  IF has_node(s1, FileNode(file_path)) THEN s1
        ELSE add_node(s1, FileNode(file_path),
                      [type |-> "file", path |-> RelPath(file_path, directory)])

\* lines 120-139: the visited guard, then the counter, the visited set and
\* the File node
process_file_begin(s, file_path) ==
    IF file_path \in s.analyzed_files THEN s
    ELSE LET s1 == [s EXCEPT !.files_processed = @ + 1,
                             !.analyzed_files = @ \cup {file_path}]
         IN  IF has_node(s1, FileNode(file_path)) THEN s1
             ELSE add_node(s1, FileNode(file_path),
                           [type |-> "file", path |-> RelPath(file_path, directory)])

Steps == <<"exports", "imports", "classes", "functions", "jsx", "hooks">>

\* lines 142-147: one extraction step
process_step(s, F, lines, file_node, step) ==
    CASE step = "exports"   -> process_exports(s, F, lines, file_node)
      [] step = "imports"   -> process_imports(s, F, lines, file_node)
      [] step = "classes"   -> process_classes(s, lines, file_node)
      [] step = "functions" -> process_functions(s, lines, file_node)
      [] step = "jsx"       -> process_jsx_components(s, lines, file_node)
      [] step = "hooks"     -> process_hooks(s, lines, file_node)

\* the step after a step; "idle" after the last
StepAfter(step) ==
    LET k == CHOOSE i \in 1..Len(Steps) : Steps[i] = step
    IN  IF k = Len(Steps) THEN "idle" ELSE Steps[k + 1]

\* lines 93-111: the files the walk hands to _process_file: under the root, in
\* no ignored directory, not an ignored file, with a source suffix
Eligible(F) ==
    {f \in F :
        LET parts == Split(f)
            file  == parts[Len(parts)]
        IN  /\ StartsWith(f, directory \o "/")
            /\ \A k \in 1..(Len(parts) - 1) : parts[k] \notin ignored_directories
            /\ file \notin ignored_files
            /\ \E k \in 1..Len(source_suffixes) : EndsWith(file, source_suffixes[k])}

\* _process_file as a whole: every step, one after the other
RECURSIVE run_steps(_, _, _, _, _)
run_steps(s, F, lines, file_node, step) ==
    IF step = "idle" THEN s
    ELSE run_steps(process_step(s, F, lines, file_node, step), F, lines, file_node,
                   StepAfter(step))

process_file(s, F, C, file_path) ==
    IF file_path \in s.analyzed_files THEN s
    ELSE run_steps(process_file_begin(s, file_path), F, C[file_path],
                   FileNode(file_path), Steps[1])

\* a whole run: _process_file for every file of the walk, in its order
RECURSIVE run(_, _, _, _)
run(s, F, C, order) ==
    IF Len(order) = 0 THEN s
    ELSE run(process_file(s, F, C, Head(order)), F, C, Tail(order))

-----------------------------------------------------------------------------
(* The source tree: what is on disk and what the files say.                *)

ImportDefault(name, path)  == <<"import", name, "from", "'" \o path \o "'", ";">>
ImportNamed(name, path)    == <<"import", "{", name, "}", "from", "'" \o path \o "'", ";">>
ExportStar(path)           == <<"export", "*", "from", "'" \o path \o "'", ";">>
ExportDefault(name)        == <<"export", "default", name, ";">>
ExportClass(name)          == <<"export", "class", name, "{", "}">>
Class(name)                == <<"class", name, "{", "}">>
ExportFunction(name)       ==
    <<"export", "function", name, "(", "a:", "number,", "b", "=", "2", ")", ":", "string", "{", "}">>
UseState                   == <<"const", "x", "=", "useState", "(", "0", ")", ";">>
Render(name)               == <<"return", "<" \o name, "/>", ";">>

FileA   == "/proj/A.js"
FileB   == "/proj/B.js"
FileApp == "/proj/components/App.js"
FileGen == "/proj/build/gen.js"

NoRequest == [current_file |-> "", import_path |-> "", result |-> ""]

NoException == [file |-> "", step |-> "", caught |-> ""]

NoParameters == [pieces |-> <<>>, params_str |-> "", parsed |-> FALSE, result |-> <<>>]

\* what each source file may contain
Menu(f) ==
    IF f = FileA THEN
        { <<ExportClass("Foo")>>, <<Class("Foo")>>, <<ExportFunction("Foo")>> }
    ELSE IF f = FileB THEN
        { <<ImportDefault("Foo", "./A")>>,
          <<ImportNamed("Foo", "./A")>>,
          <<ExportStar("./A")>>,
          <<ImportDefault("Foo", "./A"), ExportDefault("Foo")>>,
          <<ImportDefault("React", "react")>>,
          <<ImportDefault("gen", "./build/gen")>>,
          <<ExportStar("./build/gen")>>,
          <<ImportDefault("Foo", "./A"), ImportDefault("Foo", "./A")>>,
          <<ExportStar("./A"), ExportStar("./A")>> }
    ELSE IF f = FileApp THEN
        { <<ImportDefault("Foo", "../A"), UseState, Render("Foo")>>,
          <<>>,
          <<ImportDefault("React", "react"), ImportDefault("gen", "../build/gen")>> }
    ELSE { <<>> }

\* the number of _process_file calls a run makes at most
MaxCalls == 3

Init ==
    /\ fs \in {{FileB, FileApp} \cup X : X \in SUBSET {FileA, FileGen}}
    /\ content \in {c \in [Eligible(fs) -> UNION {Menu(f) : f \in Eligible(fs)}] :
                      \A f \in Eligible(fs) : c[f] \in Menu(f)}
    /\ self = init
    /\ pc = "idle"
    /\ cur = ""
    /\ calls = 0
    /\ rq = NoRequest
    /\ pq = NoParameters
    /\ raised = NoException

\* line 111: the walk reaches a file and calls _process_file; a visited file
\* returns at once, any other goes on to its first extraction step
ProcessFile(f) ==
    /\ pc = "idle"
    /\ calls < MaxCalls
    /\ calls' = calls + 1
    /\ cur' = f
    /\ self' = process_file_begin(self, f)
    /\ pc' = IF f \in self.analyzed_files THEN "idle" ELSE Steps[1]
    /\ UNCHANGED <<fs, content, rq, pq, raised>>

\* lines 142-147: the next extraction step of the file in hand
Step ==
    /\ pc # "idle"
    /\ self' = process_step(self, fs, content[cur], FileNode(cur), pc)
    /\ pc' = StepAfter(pc)
    /\ UNCHANGED <<fs, content, cur, calls, rq, pq, raised>>

Next == (\E f \in Eligible(fs) : ProcessFile(f)) \/ Step

Spec == Init /\ [][Next]_vars

-----------------------------------------------------------------------------
(* Properties of the run.                                                  *)

\* file f holds exactly these lines
Says(f, lines) == f \in DOMAIN content /\ content[f] = lines

\* file f has been through its imports step
Imported(f) == f \in self.analyzed_files /\ (cur # f \/ pc \notin {"exports", "imports"})

\* file f has been through all its steps
Scanned(f) == f \in self.analyzed_files /\ (cur # f \/ pc = "idle")

\* the walk is over: every file it hands over has been through all its steps
Finished == pc = "idle" /\ Eligible(fs) \subseteq self.analyzed_files

NodeA   == "File: A.js"
NodeB   == "File: B.js"
NodeFoo == "Entity: Foo"

\* C1: a _process_file call for a path that is already in the visited set is
\* a no-op: the graph, the export sets, the indices and every counter stay
\* as they were, and no extraction step is started
C1_VisitedFileIsNoOp ==
    [][(pc = "idle" /\ calls' # calls /\ cur' \in self.analyzed_files)
          => (self' = self /\ pc' = "idle")]_vars

\* a file with facts in the graph has been handed over a second time
C1_Revisited ==
    /\ pc = "idle"
    /\ cur \in self.analyzed_files
    /\ calls > self.files_processed
    /\ \E e \in Edges(self) : e[1] = FileNode(cur)

\* C2: an edge (source, target, relation) inserted twice, by whichever steps
\* or files, is in the final graph, once
C2_TwiceInsertedIsPresent ==
    Finished => \A k \in DOMAIN self.history : self.history[k] = 2 => k \in Edges(self)

\* C3: an edge that is in the graph stays in it, with its relation, through
\* every later step
C3_EdgesPersist == [][\A e \in Edges(self) : e \in Edges(self')]_vars

\* C4: after a run over A.js with "export class Foo {}" and B.js with
\* "import { Foo } from './A'", Foo is in the export set of A, File A DEFINES
\* the class Foo, File B USES_ENTITY Foo and Foo is DEFINED_IN File A
C4_ExportPropagation ==
    (/\ Finished
     /\ Says(FileA, <<ExportClass("Foo")>>)
     /\ Says(FileB, <<ImportNamed("Foo", "./A")>>))
    => /\ "Foo" \in GetSet(self.exports_map, NodeA)
       /\ <<NodeA, "Class: Foo (File: A.js)", "DEFINES">> \in Edges(self)
       /\ <<NodeB, NodeFoo, "USES_ENTITY">> \in Edges(self)
       /\ <<NodeFoo, NodeA, "DEFINED_IN">> \in Edges(self)

\* C5: when B.js, which imports Foo from A.js, was processed before A.js, the
\* Entity node of Foo is there, and once A.js, which exports Foo, has been
\* processed Foo is DEFINED_IN File A
C5_DefinedInAddedLater ==
    [][(/\ cur = FileA /\ pc # "idle" /\ pc' = "idle"
        /\ Scanned(FileB)
        /\ Says(FileA, <<ExportClass("Foo")>>)
        /\ Says(FileB, <<ImportDefault("Foo", "./A")>>))
          => (/\ has_node(self, NodeFoo)
              /\ <<NodeFoo, NodeA, "DEFINED_IN">> \in Edges(self'))]_vars

\* the orders in which a set of files can be walked
RECURSIVE Orders(_)
Orders(S) == IF S = {} THEN {<<>>} ELSE UNION {{<<f>> \o o : o \in Orders(S \ {f})} : f \in S}

\* C6: the final sets of nodes and of edges are those of every other order of
\* the walk over the same files with the same contents
C6_OrderIndependent ==
    Finished => \A order \in Orders(Eligible(fs)) :
                    LET other == run(init, fs, content, order)
                    IN  /\ DOMAIN other.graph.node = DOMAIN self.graph.node
                        /\ Edges(other) = Edges(self)

\* a path with a component that is an ignored directory name
Ignored(path) == \E i \in 1..Len(Split(path)) : Split(path)[i] \in ignored_directories

\* a file whose one statement reaches into the ignored directory build
IntoIgnored == {<<ImportDefault("gen", "./build/gen")>>, <<ExportStar("./build/gen")>>}

\* C9: no File node has a path with an ignored directory in it, no file of
\* an ignored directory is ever processed, and an import or re-export whose
\* candidate lies in an ignored directory is unresolved and adds no node and
\* no edge
C9_IgnoredDirectoryOpacity ==
    /\ \A n \in DOMAIN self.graph.node : StartsWith(n, "File: ") => ~Ignored(From(n, 7))
    /\ \A f \in self.analyzed_files \cup ({cur} \ {""}) : ~Ignored(f)
    /\ {"Entity: gen", "Entity: ./build/gen"} \cap DOMAIN self.graph.node = {}
    /\ \A f \in self.analyzed_files :
          (FileGen \in fs /\ content[f] \in IntoIgnored)
          => /\ resolve_import_path(fs, FileNode(f), "./build/gen") = None
             /\ \A e \in Edges(self) : e[1] # FileNode(f)

\* B.js, whose one import names a file that is on disk in build/, is done
C9_ImportIntoIgnoredDone ==
    /\ FileGen \in fs
    /\ Scanned(FileB)
    /\ Says(FileB, <<ImportDefault("gen", "./build/gen")>>)

\* specifiers that match no alias prefix and start with neither . nor /
BareSpecifiers == {"react", "lodash/fp", "@scope/pkg"}

\* files a probe for a bare specifier would find
BareFiles == {"/proj/react", "/proj/react.js", "/proj/react/index.js",
              "/proj/components/react.js", "/proj/lodash/fp.js", "/proj/@scope/pkg.js"}

C13_FirstWriteWins ==
    [][\A n \in DOMAIN self.graph.node :
          n \in DOMAIN self'.graph.node /\ self'.graph.node[n] = self.graph.node[n]]_vars

\* the node of A.js was created by an import of another file, without a path,
\* and A.js, whose own node would carry a path, has been processed since
C13_LaterWriteIgnored ==
    /\ Scanned(FileA)
    /\ has_node(self, NodeA)
    /\ self.graph.node[NodeA] = [type |-> "file"]

-----------------------------------------------------------------------------
(* The resolver on its own: a file system is drawn, then requests are      *)
(* resolved against it.                                                    *)

\* files that may or may not be on disk around /proj/components/Button
ResolverFiles == {
    "/proj/components/Button",
    "/proj/components/Button.js",
    "/proj/components/Button.ts",
    "/proj/components/Button.tsx",
    "/proj/components/Button.d.ts",
    "/proj/components/Button/index.js",
    "/proj/components/Button/index.ts",
    "/proj/components/index.js" }

\* a regular file is no directory of another file
FsConsistent(F) == \A f \in F, g \in F : ~StartsWith(g, f \o "/")

ResolverFrom == {"File: B.js", "File: components/App.js", "File: pages/Home.js"}

ResolverSpecifiers == {"./Button", "@components/Button", "../components/Button",
                       "./components/Button", "react"}

InitResolve ==
    /\ fs \in {F \in SUBSET ResolverFiles : FsConsistent(F)}
    /\ content = <<>>
    /\ self = init
    /\ pc = "idle"
    /\ cur = ""
    /\ calls = 0
    /\ rq = NoRequest
    /\ pq = NoParameters
    /\ raised = NoException

Resolve ==
    /\ \E c \in ResolverFrom, s \in ResolverSpecifiers :
          rq' = [current_file |-> c, import_path |-> s,
                 result |-> resolve_import_path(fs, c, s)]
    /\ UNCHANGED <<fs, content, self, pc, cur, calls, pq, raised>>

SpecResolve == InitResolve /\ [][Resolve]_vars

Button == "/proj/components/Button"

\* the requests that name /proj/components/Button without an extension
ButtonRequests ==
    {<<"File: components/App.js", "./Button">>, <<"File: B.js", "./components/Button">>,
     <<"File: pages/Home.js", "../components/Button">>}
    \cup {<<c, "@components/Button">> : c \in ResolverFrom}

AsksButton == <<rq.current_file, rq.import_path>> \in ButtonRequests

\* C7: with Button.ts and Button.tsx on disk and no file named Button, every
\* extensionless request for Button gets the same file, the one whose
\* extension is first in the probe list: Button.js if it is there, else
\* Button.ts, never Button.tsx
C7_ExtensionPriority ==
    (AsksButton /\ {Button \o ".ts", Button \o ".tsx"} \subseteq fs /\ Button \notin fs)
    => rq.result = IF Button \o ".js" \in fs THEN "File: components/Button.js"
                   ELSE "File: components/Button.ts"

\* Button.ts was chosen over Button.tsx
C7_TsChosen ==
    /\ AsksButton
    /\ {Button \o ".ts", Button \o ".tsx"} \subseteq fs
    /\ fs \cap {Button, Button \o ".js"} = {}
    /\ rq.result = "File: components/Button.ts"

\* C8: @components/Button, from any file, resolves under the project root to
\* components/Button.<ext> if such a file is there, else to
\* components/Button/index.<ext>
C8_AliasResolution ==
    LET Direct == {Button \o e : e \in {"", ".js", ".ts", ".jsx", ".tsx", ".mjs", ".mts", ".d.ts"}}
        Index  == {Button \o "/index" \o e : e \in {".js", ".ts", ".jsx", ".tsx", ".mjs", ".mts"}}
        To(S)  == \E f \in S \cap fs : rq.result = "File: " \o RelPath(f, directory)
    IN  rq.import_path = "@components/Button"
        => IF Direct \cap fs # {} THEN To(Direct)
           ELSE IF Index \cap fs # {} THEN To(Index)
           ELSE TRUE

\* the candidates of the path Button that carry a listed extension, in the
\* order of the list, and its directory index files
ButtonWithExtension == {Button \o e : e \in {".js", ".ts", ".jsx", ".tsx", ".mjs", ".mts", ".d.ts"}}

ButtonIndex == {Button \o "/index" \o e : e \in {".js", ".ts", ".jsx", ".tsx", ".mjs", ".mts"}}

\* C11: when neither the path Button, nor Button with a listed extension, nor
\* an index file of the directory Button is a regular file, a request for
\* Button is unresolved
C11_UnresolvedDropped ==
    (AsksButton /\ fs \cap ({Button} \cup ButtonWithExtension \cup ButtonIndex) = {})
    => rq.result = None

\* C16: whenever Button itself or Button with a listed extension, .d.ts
\* included, is on disk, a request for Button gets one of these files and no
\* index file of the directory Button
C16_ExtensionBeforeIndex ==
    (AsksButton /\ fs \cap ({Button} \cup ButtonWithExtension) # {})
    => \E f \in fs \cap ({Button} \cup ButtonWithExtension) :
          rq.result = "File: " \o RelPath(f, directory)

-----------------------------------------------------------------------------
(* The parameter parser on its own: a parameter list is drawn, then        *)
(* _parse_parameters is applied to it.                                     *)

\* parameters as they are written in a signature; none has a comma outside
\* its own brackets
ParameterPieces == {"a: number", "b = {x:1,y:2}", "{c,d}: Props",
                    "m: Map<K, V>", "f: (x, y) => void", "{a, b}: P"}

\* the number of parameters of a list at most
MaxParams == 3

\* the pieces written one after the other, with ", " between them
RECURSIVE JoinParameters(_)
JoinParameters(pieces) ==
    IF Len(pieces) = 0 THEN ""
    ELSE IF Len(pieces) = 1 THEN pieces[1]
    ELSE pieces[1] \o ", " \o JoinParameters(Tail(pieces))

InitParams ==
    /\ fs = {}
    /\ content = <<>>
    /\ self = init
    /\ pc = "idle"
    /\ cur = ""
    /\ calls = 0
    /\ rq = NoRequest
    /\ raised = NoException
    /\ \E n \in 1..MaxParams : \E pieces \in [1..n -> ParameterPieces] :
          pq = [pieces |-> pieces, params_str |-> JoinParameters(pieces),
                parsed |-> FALSE, result |-> <<>>]

ParseParameters ==
    /\ ~pq.parsed
    /\ pq' = [pq EXCEPT !.parsed = TRUE, !.result = parse_parameters(pq.params_str)]
    /\ UNCHANGED <<fs, content, self, pc, cur, calls, rq, raised>>

SpecParams == InitParams /\ [][ParseParameters]_vars

\* C12: the list "a: number, b = {x:1,y:2}, {c,d}: Props" gives three
\* descriptors; the second is named b and has the whole object literal as its
\* default; the third is destructured and has the type Props
C12_ThreeDescriptors ==
    (pq.parsed /\ pq.params_str = "a: number, b = {x:1,y:2}, {c,d}: Props")
    => /\ Len(pq.result) = 3
       /\ pq.result[2]["name"] = "b"
       /\ "default" \in DOMAIN pq.result[2] /\ pq.result[2]["default"] = "{x:1,y:2}"
       /\ "destructured" \in DOMAIN pq.result[3] /\ pq.result[3]["destructured"]
       /\ "type" \in DOMAIN pq.result[3] /\ pq.result[3]["type"] = "Props"

\* C17: a list is split at its top-level commas and nowhere else: it gives
\* one descriptor for each parameter written, whatever commas a parameter has
\* inside its parentheses, braces, brackets or generic arguments
C17_TopLevelCommasOnly == pq.parsed => Len(pq.result) = Len(pq.pieces)

-----------------------------------------------------------------------------
(* The extractors on more syntax: A.js holds one declaration, B.js one     *)
(* import of A.js, written on one line or broken over several.             *)

ClassExtends(name, base) == <<"class", name, "extends", base, "{", "}">>
FunctionDecl(name)       == <<"function", name, "(", "a,", "b", ")", "{", "}">>

\* the bases of a React class component
ReactBases == {"Component", "React.Component", "PureComponent", "React.PureComponent"}

\* the import statements of B.js, each as the lines it is written on
ImportForms == {
    <<ImportDefault("Foo", "./A")>>,
    << <<"import", "Foo", "from">>, <<"'./A'", ";">> >>,
    << <<"import", "Foo">>, <<"from", "'./A'", ";">> >>,
    <<ImportNamed("Foo", "./A")>>,
    << <<"import", "{">>, <<"Foo">>, <<"}", "from", "'./A'", ";">> >>,
    << <<"import", "{", "Foo,", "Bar", "}", "from", "'./A'", ";">> >>,
    << <<"import", "{", "Foo,">>, <<"Bar", "}", "from", "'./A'", ";">> >> }

\* the declarations of A.js
DeclarationForms ==
    {<<ClassExtends("Foo", base)>> : base \in ReactBases \cup {"Base"}}
    \cup {<<Class("Foo")>>, <<ExportClass("Foo")>>,
          <<FunctionDecl("useFoo")>>, <<FunctionDecl("foo")>>}

InitSyntax ==
    /\ fs = {FileA, FileB}
    /\ \E a \in DeclarationForms, b \in ImportForms :
          content = (FileA :> a) @@ (FileB :> b)
    /\ self = init
    /\ pc = "idle"
    /\ cur = ""
    /\ calls = 0
    /\ rq = NoRequest
    /\ pq = NoParameters
    /\ raised = NoException

SpecSyntax == InitSyntax /\ [][Next]_vars

\* the statement of a file written on one line
OneLine(lines) == <<Flatten(lines)>>

\* C14: however the import statement of B.js is broken over lines, the
\* accumulator hands the joined statement to the patterns once: the imports
\* found are those of the statement written on one line, and B.js IMPORTS A.js
C14_SplitStatementFound ==
    Imported(FileB)
    => /\ scan_lines(content[FileB], <<>>, <<>>) = scan_lines(OneLine(content[FileB]), <<>>, <<>>)
       /\ <<NodeB, NodeA, "IMPORTS">> \in Edges(self)

NodeClassFoo == "Class: Foo (File: A.js)"

\* C15: the Class node of a class that extends Component, React.Component,
\* PureComponent or React.PureComponent has is_react_component true; that of a
\* class that extends another base, or nothing, has it false
C15_ReactClassFlagged ==
    (Scanned(FileA) /\ has_node(self, NodeClassFoo))
    => self.graph.node[NodeClassFoo]["is_react_component"]
          = (\E base \in ReactBases : Says(FileA, <<ClassExtends("Foo", base)>>))

\* C19: function_params of a Function node is the parameters attribute of
\* the node, also when the function was matched by more than one pattern
C19_ParamsAgree ==
    \A f \in DOMAIN self.function_params :
        has_node(self, f) => self.function_params[f] = self.graph.node[f]["parameters"]

-----------------------------------------------------------------------------
(* Exceptions.  A step may raise inside the handling of a match, where the *)
(* try of the step's own loop catches it, or outside it, where the try of  *)
(* _process_file does; open and read may raise before the first step.     *)

InitFaults ==
    /\ fs = {FileA, FileB}
    /\ \E a \in {<<ExportClass("Foo")>>, <<ExportFunction("Foo")>>, <<FunctionDecl("useFoo")>>},
          b \in {<<ImportDefault("Foo", "./A")>>, <<ExportStar("./A")>>,
                 <<ImportDefault("Foo", "./A"), UseState, Render("Foo")>>} :
          content = (FileA :> a) @@ (FileB :> b)
    /\ self = init
    /\ pc = "idle"
    /\ cur = ""
    /\ calls = 0
    /\ rq = NoRequest
    /\ pq = NoParameters
    /\ raised = NoException

\* lines 128-129 and 149-150: the file cannot be read; the counter of line 124
\* has gone up, nothing else has happened
ReadFails(f) ==
    /\ pc = "idle"
    /\ calls < MaxCalls
    /\ f \notin self.analyzed_files
    /\ calls' = calls + 1
    /\ cur' = f
    /\ self' = [self EXCEPT !.files_processed = @ + 1]
    /\ raised' = [file |-> f, step |-> "read", caught |-> "_process_file"]
    /\ UNCHANGED <<fs, content, pc, rq, pq>>

\* the step in hand has matches and the handling of each raises before its
\* first effect: the except clause of the step's loop catches every one, the
\* step ends and _process_file calls the next step.  The loops of lines
\* 634-666, 364-391, 471-522, 530-544 and 551-565 have such a clause;
\* _process_imports has none
HandlerRaises ==
    /\ pc \in {"exports", "classes", "functions", "jsx", "hooks"}
    /\ process_step(self, fs, content[cur], FileNode(cur), pc) # self
    /\ pc' = StepAfter(pc)
    /\ raised' = [file |-> cur, step |-> pc, caught |-> pc]
    /\ UNCHANGED <<fs, content, self, cur, calls, rq, pq>>

\* lines 149-150: the step in hand raises outside the handling of a match,
\* before its first effect; _process_file catches it and returns
StepRaises ==
    /\ pc # "idle"
    /\ pc' = "idle"
    /\ raised' = [file |-> cur, step |-> pc, caught |-> "_process_file"]
    /\ UNCHANGED <<fs, content, self, cur, calls, rq, pq>>

NextFaults ==
    \/ \E f \in Eligible(fs) : ProcessFile(f)
    \/ Step
    \/ \E f \in Eligible(fs) : ReadFails(f)
    \/ HandlerRaises
    \/ StepRaises

SpecFaults == InitFaults /\ [][NextFaults]_vars

\* C18: when a step of the file in hand raises, none of the remaining steps of
\* that file is run, what is in the graph stays, and the walk goes on to the
\* next file
C18_SingleFailureBoundary ==
    [][(pc # "idle" /\ raised' # raised)
          => (pc' = "idle" /\ self' = self)]_vars

====
